---- MODULE Spec2Model ----
(***************************************************************************)
(* A model of pkg/scheduler.go: five change-stream adapters are forwarded  *)
(* into one unbuffered channel (mux); a single dispatcher goroutine        *)
(* receives each message and runs its action, either patch (mirror the     *)
(* document into the store) or schedule (query the fit document, pick the  *)
(* heaviest node, write the pod, bind it, remove it again if binding       *)
(* fails).                                                                 *)
(*                                                                         *)
(* What lies outside the repository is modelled by its contract:           *)
(*  - the store applies a write at once (Add is an upsert, Replace and     *)
(*    Remove need the key to exist and fail with not-found otherwise);     *)
(*    NewTransaction and Close only open and close the handle;             *)
(*  - the fit query answers with any result shape;                         *)
(*  - the control plane answers a POST with any status, and the transport  *)
(*    may fail before or after the control plane has taken the binding.    *)
(* Weights are float64 in the code and are compared with < only; they are  *)
(* modelled as the integers 1..MaxWeight.                                  *)
(* Every document an adapter delivers is a JSON object with a metadata and *)
(* a spec object; what varies is which of metadata.uid, metadata.name and  *)
(* metadata.namespace it carries. An adapter may deliver a resync at any   *)
(* point of its stream (a restarted watch), not only first.                *)
(*                                                                         *)
(* Spec is the scheduler after Start has returned nil. SpecStart begins    *)
(* before Start is called: there, NewTransaction or a write of init may    *)
(* fail (a store that cannot be used at startup), and newReflector may     *)
(* fail for any row of the table.                                          *)
(***************************************************************************)
EXTENDS Integers, Sequences, FiniteSets, TLC

\* ------------------------------------------------------------------ bounds

\* Events all adapters together produce in one behaviour.
MaxEvents == 2
\* Items of one resync snapshot.
MaxItems == 2
\* Weights the fit document gives a node: 1..MaxWeight.
MaxWeight == 2

\* ------------------------------------------------------------- documents

\* A field that is absent from a document (or is no string).
None == "none"

Doc(uid, name, namespace, nodeName, rev) ==
    [uid |-> uid, name |-> name, namespace |-> namespace,
     nodeName |-> nodeName, rev |-> rev]

\* Unplaced pods (spec.nodeName empty), as the first adapter's selector gives them.
PodA == Doc("p1", "a", "ns1", None, 1)
PodNoNamespace == Doc("p2", "b", None, None, 1)
PodNoUid == Doc(None, "c", "ns1", None, 1)

\* Placed pods, nodes, services and replication controllers.
PlacedA == Doc("p1", "a", "ns1", "n2", 2)
Node1 == Doc("n1", "n1", None, None, 1)
Node2 == Doc("n2", "n2", None, None, 1)
NodeNoUid == Doc(None, "n3", None, None, 1)
Svc1 == Doc("s1", "svc", "ns1", None, 1)
Rc1 == Doc("r1", "rc", "ns1", None, 1)

\* The node identifiers a fit document may rank.
NodeNames == {"n1", "n2"}

\* ---------------------------------------------------------------- events

\* reflector payloads: *resync, *sync (added, modified, deleted) and error
Resync(items) == [type |-> "resync", op |-> None, items |-> items, object |-> None]
Sync(op, obj) == [type |-> "sync", op |-> op, items |-> <<>>, object |-> obj]
ErrorEvent == [type |-> "error", op |-> None, items |-> <<>>, object |-> None]

SyncTypes == {"added", "modified", "deleted"}

\* The reflector table of run(): the action and resource type of each adapter.
SpecTable ==
    << [action |-> "schedule", resourceType |-> "pods"],
       [action |-> "patch", resourceType |-> "pods"],
       [action |-> "patch", resourceType |-> "nodes"],
       [action |-> "patch", resourceType |-> "services"],
       [action |-> "patch", resourceType |-> "replicationcontrollers"] >>

Adapters == 1..Len(SpecTable)

\* The documents each adapter's stream carries.
AdapterDocs(i) ==
    CASE i = 1 -> {PodA, PodNoNamespace, PodNoUid}
      [] i = 2 -> {PlacedA}
      [] i = 3 -> {Node1, Node2, NodeNoUid}
      [] i = 4 -> {Svc1}
      [] OTHER -> {Rc1}

\* A snapshot lists every object once: items of pairwise different uid.
Snapshots(docs) ==
    UNION { { s \in [1..n -> docs] :
                \A a, b \in 1..n : a # b => s[a].uid # s[b].uid } : n \in 0..MaxItems }

AdapterEvents(i) ==
    { Resync(s) : s \in Snapshots(AdapterDocs(i)) }
      \cup { Sync(t, d) : t \in SyncTypes, d \in AdapterDocs(i) }
      \cup { ErrorEvent }

\* ------------------------------------------------------------------ state

VARIABLES
    produced,   \* history: what each adapter has produced, in order
    rx,         \* each adapter's Rx channel: produced, not yet taken by its forwarder
    holding,    \* the message of each forwarder that is blocked on its send to mux
    delivered,  \* history: per (action, resourceType) tag, the payloads dispatched
    pc,         \* the dispatcher: idle, schedule (between pods), binding, crashed
    todo,       \* the pods the running schedule action has still to attempt
    mirror,     \* the store: (resourceType, uid) -> entry, for the keys present
    txnOpen,    \* transactions opened and not yet closed
    bound,      \* the bindings the control plane has accepted
    att,        \* the scheduling attempt in progress, or the last one
    pat,        \* the last patch action
    boot        \* Start: how far it has come and what it returned

vars == <<produced, rx, holding, delivered, pc, todo, mirror, txnOpen, bound, att, pat, boot>>

NoMsg == [action |-> None, resourceType |-> None, payload |-> ErrorEvent]

Tags == { <<SpecTable[i].action, SpecTable[i].resourceType>> : i \in Adapters }

\* ------------------------------------------------------------------ store

\* A store path data.<resourceType>[<uid>].
Path(resourceType, uid) == <<resourceType, uid>>

\* A stored document, with the action that wrote it (history).
Entry(doc, by) == [doc |-> doc, by |-> by]

\* A finite map with one key set, and with one key removed.
Put(m, key, e) == [k \in DOMAIN m \cup {key} |-> IF k = key THEN e ELSE m[k]]
Del(m, key) == [k \in DOMAIN m \ {key} |-> m[k]]

\* storage.Write(txn, op, path, value): the store after the write, and whether
\* the write succeeded. The root documents exist (init), so Add always lands.
Write(m, op, key, e) ==
    CASE op = "add" -> [ok |-> TRUE, m |-> Put(m, key, e)]
      [] op = "replace" ->
            IF key \in DOMAIN m THEN [ok |-> TRUE, m |-> Put(m, key, e)]
                                ELSE [ok |-> FALSE, m |-> m]
      [] OTHER ->
            IF key \in DOMAIN m THEN [ok |-> TRUE, m |-> Del(m, key)]
                                ELSE [ok |-> FALSE, m |-> m]

\* One line of a write log: the write asked of the store and its outcome.
Logged(op, key, doc, ok) == [op |-> op, key |-> key, doc |-> doc, ok |-> ok]

\* --------------------------------------------------------------- metadata

\* getMetadata(key, obj): the string at obj.metadata[key]; None stands for the
\* "malformed object" error.
getMetadata(key, obj) == obj[key]

\* getUID gives the empty string for a document without metadata.uid, and no
\* error (the ok of the type assertion is dropped).
getUIDEmpty(obj) ==
    IF getMetadata("uid", obj) = None THEN "" ELSE getMetadata("uid", obj)

\* getUID(obj): the string at obj.metadata.uid, None for the error.
getUID(obj) == getMetadata("uid", obj)

\* getNodeName(pod): the string at pod.spec.nodeName, None for "malformed pod".
getNodeName(pod) == pod.nodeName

\* ------------------------------------------------------------------ patch

\* patchOp(resourceType, op, obj): the uid first, then one transaction with one
\* write. Returns the store, the write log and the error ("nil" for none).
patchOp(m, resourceType, op, obj) ==
    IF getUID(obj) = None
    THEN [m |-> m, log |-> <<>>, ret |-> "malformed"]
    ELSE LET key == Path(resourceType, getUID(obj))
             w == Write(m, op, key, Entry(obj, "patch"))
         IN  [m |-> w.m,
              log |-> << Logged(op, key, obj, w.ok) >>,
              ret |-> IF w.ok THEN "nil" ELSE "notfound"]

\* The resync loop of patch: one patchOp per item, returning at the first error.
RECURSIVE patchItems(_, _, _, _)
patchItems(m, resourceType, items, log) ==
    IF items = <<>>
    THEN [m |-> m, log |-> log, ret |-> "nil"]
    ELSE LET r == patchOp(m, resourceType, "add", Head(items))
         IN  IF r.ret # "nil"
             THEN [m |-> r.m, log |-> log \o r.log, ret |-> r.ret]
             ELSE patchItems(r.m, resourceType, Tail(items), log \o r.log)

\* patch(resourceType, payload)
patch(m, resourceType, payload) ==
    CASE payload.type = "resync" -> patchItems(m, resourceType, payload.items, <<>>)
      [] payload.type = "sync" /\ payload.op = "added" ->
            patchOp(m, resourceType, "add", payload.object)
      [] payload.type = "sync" /\ payload.op = "modified" ->
            patchOp(m, resourceType, "replace", payload.object)
      [] payload.type = "sync" /\ payload.op = "deleted" ->
            patchOp(m, resourceType, "remove", payload.object)
      [] payload.type = "error" -> [m |-> m, log |-> <<>>, ret |-> "event"]
      [] OTHER -> [m |-> m, log |-> <<>>, ret |-> "nil"]

\* ----------------------------------------------------------------- oracle

\* A value of the fit document: a number (float64) or anything else.
Num(w) == [num |-> TRUE, w |-> w]
NotNum == [num |-> FALSE, w |-> 0]
Values == { Num(w) : w \in 1..MaxWeight } \cup { NotNum }

\* What topdown.Query answers: an error, Undefined, a map from node name to
\* value, or a document of another shape.
QueryError == [kind |-> "error", m |-> <<>>]
Undefined == [kind |-> "undefined", m |-> <<>>]
OtherShape == [kind |-> "other", m |-> <<>>]
MapResult(f) == [kind |-> "map", m |-> f]
MapResults == { MapResult(f) : f \in UNION { [S -> Values] : S \in SUBSET NodeNames } }
OracleResults == { QueryError, Undefined, OtherShape } \cup MapResults

\* The orders in which `range results` may visit the keys of a map.
Orders(S) ==
    { s \in [1..Cardinality(S) -> S] : \A a, b \in DOMAIN s : a # b => s[a] # s[b] }

\* ---------------------------------------------------------------- ranking

ranking(nodeName, weight) == [nodeName |-> nodeName, weight |-> weight]

\* Less with the comparison turned round (a descending sort).
LessDescending(r, i, j) == r[i].weight > r[j].weight

\* rankings.Less and rankings.Swap
Less(r, i, j) == r[i].weight < r[j].weight

Swap(r, i, j) == [r EXCEPT ![i] = r[j], ![j] = r[i]]

\* sort.Sort on a slice this short is an insertion sort:
\* for i := 1; i < n; i++ { for j := i; j > 0 && Less(j, j-1); j-- { Swap(j, j-1) } }
RECURSIVE sink(_, _)
sink(r, j) == IF j > 1 /\ Less(r, j, j - 1) THEN sink(Swap(r, j, j - 1), j - 1) ELSE r

RECURSIVE insertionSort(_, _)
insertionSort(r, i) == IF i > Len(r) THEN r ELSE insertionSort(sink(r, i), i + 1)

Sort(r) == insertionSort(r, 2)

\* The rankings appended while ranging over the map in the given order.
Rankings(res, order) ==
    [i \in 1..Len(order) |-> ranking(order[i], res.m[order[i]].w)]

\* The first element of the sorted rankings instead of the last.
PickFirst(sorted) == sorted[1].nodeName

\* nodeName := rankings[len(rankings)-1].nodeName
PickNode(sorted) == sorted[Len(sorted)].nodeName

\* The type switch with Undefined handled as a failed query.
TypeSwitchUndefinedIsError(res) ==
    CASE res.kind = "error" -> "error"
      [] res.kind = "map" ->
            IF \E k \in DOMAIN res.m : ~res.m[k].num THEN "panic" ELSE "rank"
      [] res.kind = "undefined" -> "error"
      [] OTHER -> "malformed"

\* The error check and the type switch on the query result: "error" when the
\* query failed, "rank" for a map, "undefined", "malformed" for any other
\* shape; "panic" when a value of the map is no float64 (the unchecked
\* assertion v.(float64)).
TypeSwitch(res) ==
    CASE res.kind = "error" -> "error"
      [] res.kind = "map" ->
            IF \E k \in DOMAIN res.m : ~res.m[k].num THEN "panic" ELSE "rank"
      [] res.kind = "undefined" -> "undefined"
      [] OTHER -> "malformed"

\* ---------------------------------------------------------------- binding

NoRequest == [namespacePath |-> None, name |-> None, namespace |-> None, target |-> None]

\* The request with the path of the "default" namespace whatever the pod's.
BindRequestDefaultNamespace(pod) ==
    IF \/ getMetadata("name", pod) = None
       \/ getNodeName(pod) = None
       \/ getMetadata("namespace", pod) = None
    THEN NoRequest
    ELSE [namespacePath |-> "default",
          name |-> getMetadata("name", pod),
          namespace |-> getMetadata("namespace", pod),
          target |-> getNodeName(pod)]

\* bindPod up to the request: the binding body and the path
\* <base>/namespaces/<namespace>/bindings, or NoRequest when the pod lacks its
\* name, node name or namespace.
BindRequest(pod) ==
    IF \/ getMetadata("name", pod) = None
       \/ getNodeName(pod) = None
       \/ getMetadata("namespace", pod) = None
    THEN NoRequest
    ELSE [namespacePath |-> getMetadata("namespace", pod),
          name |-> getMetadata("name", pod),
          namespace |-> getMetadata("namespace", pod),
          target |-> getNodeName(pod)]

\* What becomes of a POST: answered 201, answered 500, not delivered
\* (transport failure), or taken by the control plane with the answer lost
\* (transport failure after delivery).
BindOutcomes == {"created", "rejected", "unreachable", "lost"}

\* The control plane took the binding.
Accepted(outcome) == outcome \in {"created", "lost"}

\* client.Do answered without error and resp.StatusCode <= 201.
BindSucceeded(outcome) == outcome = "created"

\* The bind's error returned without the compensating remove.
CompensateSkipped(m, key, log) == [m |-> m, log |-> log, ret |-> "bind"]

\* The bind failed: s.store.Write(txn, storage.RemoveOp, path, nil), and the
\* error returned: the remove's if it failed, else the bind's.
Compensate(m, key, log) ==
    LET w == Write(m, "remove", key, Entry(None, None))
    IN  [m |-> w.m,
         log |-> Append(log, Logged("remove", key, None, w.ok)),
         ret |-> IF w.ok THEN "bind" ELSE "remove"]

\* --------------------------------------------------------------- schedule

Outcome(stage, ret, m, log, posts, selected) ==
    [stage |-> stage, ret |-> ret, m |-> m, log |-> log, posts |-> posts,
     selected |-> selected]

\* schedulePod up to the POST. stage: "returned" (with its error, "nil" for
\* none), "binding" (the POST is in flight, the transaction open) or "panic".
schedulePod(m, pod, res, order) ==
    IF getUID(pod) = None THEN Outcome("returned", "malformed", m, <<>>, <<>>, None)
    ELSE IF TypeSwitch(res) = "error" THEN Outcome("returned", "oracle", m, <<>>, <<>>, None)
    ELSE IF TypeSwitch(res) = "panic" THEN Outcome("panic", "panic", m, <<>>, <<>>, None)
    ELSE IF TypeSwitch(res) # "rank" THEN Outcome("returned", "nil", m, <<>>, <<>>, None)
    ELSE LET sorted == Sort(Rankings(res, order)) IN
         IF Len(sorted) = 0 THEN Outcome("returned", "nil", m, <<>>, <<>>, None)
         ELSE LET nodeName == PickNode(sorted)
                  placed == [pod EXCEPT !.nodeName = nodeName]
                  key == Path("pods", getUID(pod))
                  w == Write(m, "add", key, Entry(placed, "schedule"))
                  log == << Logged("add", key, placed, w.ok) >>
                  req == BindRequest(placed)
              IN  IF ~w.ok THEN Outcome("returned", "write", w.m, log, <<>>, nodeName)
                  ELSE IF req = NoRequest
                       THEN LET c == Compensate(w.m, key, log)
                            IN  Outcome("returned", c.ret, c.m, c.log, <<>>, nodeName)
                       ELSE Outcome("binding", "pending", w.m, log, <<req>>, nodeName)

\* -------------------------------------------------------------- histories

NotQueried == [kind |-> "none", m |-> <<>>]

\* A selection an earlier attempt made: its pod, its query result, its node.
NoSelection == [pod |-> None, result |-> NotQueried, selected |-> None]

\* The record of one scheduling attempt. bind: "none" (no bind call),
\* "norequest" (bindPod failed before its request) or the POST's outcome.
\* fresh: nothing has been dispatched since the attempt. prev: the latest
\* selection of the attempts before this one. index: the attempts the
\* schedule action has made so far, this one included. event: the error the
\* schedule action returned without an attempt. txns: the transactions the
\* attempt opened. peak: the most transactions open at once during it.
NoAttempt ==
    [pod |-> None, pre |-> <<>>, result |-> NotQueried, selected |-> None,
     log |-> <<>>, posts |-> <<>>, bind |-> "none", ret |-> "nil",
     stage |-> "none", fresh |-> FALSE, prev |-> NoSelection,
     index |-> 0, event |-> "nil", txns |-> 0, peak |-> 0]

\* The latest selection made up to and including attempt a.
LastSelection(a) ==
    IF a.selected = None THEN a.prev
    ELSE [pod |-> a.pod, result |-> a.result, selected |-> a.selected]

\* The record of one patch action: its message, the store before it, its
\* write log, its error, the transactions it opened and the most
\* transactions open at once during it.
NoPatch ==
    [msg |-> NoMsg, pre |-> <<>>, log |-> <<>>, ret |-> "nil", done |-> FALSE,
     txns |-> 0, peak |-> 0]

\* ----------------------------------------------------------- transactions

\* s.store.NewTransaction() and s.store.Close(txn), on the number of open
\* transactions.
NewTransaction(n) == n + 1

\* A return path on which Close is not called.
CloseSkipped(n) == n

Close(n) == n - 1

\* k transactions one after the other, each closed (deferred Close of
\* patchOp, of schedulePod) before the next is opened.
RECURSIVE EachClosed(_, _)
EachClosed(n, k) == IF k = 0 THEN n ELSE EachClosed(Close(NewTransaction(n)), k - 1)

\* The most transactions open at once while k transactions are opened and
\* closed one after the other.
Peak(n, k) == IF k = 0 THEN n ELSE NewTransaction(n)

\* The transactions an attempt opens: one, unless getUID has failed before.
TxnsOpened(o) == IF o.ret = "malformed" THEN 0 ELSE 1

\* The transactions a patch action opens: one per patchOp that got past
\* getUID, each with one write.
patchTxns(r) == Len(r.log)

\* ---------------------------------------------------------------- startup

\* init's baseDocs: the root documents it writes, in its order.
baseDocs == <<"pods", "nodes", "replicationcontrollers", "services">>

\* Start's progress. pc: "init" (Start has been called), "run" (run is in its
\* loop over the table), "done" (Start has returned). roots: the root
\* documents written. started: the rows of the table whose reflector and
\* forwarder are started. dispatcher: the dispatching goroutine is started.
\* ret: what Start returned. failed: the call that failed, if one did.
NotStarted ==
    [pc |-> "init", roots |-> {}, started |-> 0, dispatcher |-> FALSE,
     ret |-> "pending", failed |-> None]

\* Start has returned nil with every row started.
Running ==
    [pc |-> "done", roots |-> { baseDocs[k] : k \in DOMAIN baseDocs },
     started |-> Len(SpecTable), dispatcher |-> TRUE, ret |-> "nil",
     failed |-> None]

\* ------------------------------------------------------------------- init

Init ==
    /\ produced = [i \in Adapters |-> <<>>]
    /\ rx = [i \in Adapters |-> <<>>]
    /\ holding = <<>>
    /\ delivered = [t \in Tags |-> <<>>]
    /\ pc = "idle"
    /\ todo = <<>>
    /\ mirror = <<>>
    /\ txnOpen = 0
    /\ bound = {}
    /\ att = NoAttempt
    /\ pat = NoPatch
    /\ boot = Running

\* ---------------------------------------------------------------- adapters

RECURSIVE SumLen(_, _)
SumLen(f, S) ==
    IF S = {} THEN 0
    ELSE LET i == CHOOSE x \in S : TRUE IN Len(f[i]) + SumLen(f, S \ {i})

\* Adapter i puts its next event on its Rx channel.
Produce(i) ==
    /\ i <= boot.started
    /\ pc # "crashed"
    /\ SumLen(produced, Adapters) < MaxEvents
    /\ \E e \in AdapterEvents(i) :
          /\ produced' = [produced EXCEPT ![i] = Append(@, e)]
          /\ rx' = [rx EXCEPT ![i] = Append(@, e)]
    /\ UNCHANGED <<holding, delivered, pc, todo, mirror, txnOpen, bound, att, pat, boot>>

\* The message built from the loop variable shared by all forwarders (no
\* `sp := sp`): the last row of the table.
MsgSharedRow(i, x) ==
    [action |-> SpecTable[Len(SpecTable)].action,
     resourceType |-> SpecTable[Len(SpecTable)].resourceType,
     payload |-> x]

\* The message forwarder i builds for payload x: its own row of the table.
Msg(i, x) ==
    [action |-> SpecTable[i].action, resourceType |-> SpecTable[i].resourceType,
     payload |-> x]

\* What `for x := range r.Rx` receives next.
Receive(q) == Head(q)

\* Forwarder i takes the next event from Rx and blocks on `mux <- msg`.
Forward(i) ==
    /\ i <= boot.started
    /\ pc # "crashed"
    /\ i \notin DOMAIN holding
    /\ rx[i] # <<>>
    /\ holding' = Put(holding, i, Msg(i, Receive(rx[i])))
    /\ rx' = [rx EXCEPT ![i] = Tail(@)]
    /\ UNCHANGED <<produced, delivered, pc, todo, mirror, txnOpen, bound, att, pat, boot>>

\* -------------------------------------------------------------- dispatcher

\* The dispatcher receives forwarder i's message from mux.
Received(i) ==
    /\ holding' = Del(holding, i)
    /\ delivered' = [delivered EXCEPT
                        ![<<holding[i].action, holding[i].resourceType>>] =
                            Append(@, holding[i].payload)]

\* The dispatcher calls every action from its own goroutine (`go
\* msg.action(...)`): it is ready for the next message at once.
RangingSpawned == pc # "crashed"

\* `for msg := range mux`: the dispatcher receives the next message when the
\* action of the previous one has returned.
Ranging == pc = "idle"

\* msg.action is s.patch: the whole action, every transaction it opens closed
\* again by the time it returns.
DispatchPatch(i) ==
    /\ boot.dispatcher
    /\ Ranging
    /\ i \in DOMAIN holding
    /\ holding[i].action = "patch"
    /\ Received(i)
    /\ LET msg == holding[i]
           r == patch(mirror, msg.resourceType, msg.payload)
       IN  /\ mirror' = r.m
           /\ pat' = [msg |-> msg, pre |-> mirror, log |-> r.log, ret |-> r.ret,
                      done |-> TRUE, txns |-> patchTxns(r),
                      peak |-> Peak(txnOpen, patchTxns(r))]
           /\ txnOpen' = EachClosed(txnOpen, patchTxns(r))
    /\ att' = [NoAttempt EXCEPT !.prev = LastSelection(att)]
    /\ UNCHANGED <<produced, rx, pc, todo, bound, boot>>

\* schedule attempts the document of every incremental event, whatever its
\* type.
scheduleItemsAnyType(payload) ==
    CASE payload.type = "resync" -> payload.items
      [] payload.type = "sync" -> << payload.object >>
      [] OTHER -> <<>>

\* schedule(resourceType, payload): the pods it hands to schedulePod, in order.
scheduleItems(payload) ==
    CASE payload.type = "resync" -> payload.items
      [] payload.type = "sync" /\ payload.op = "added" -> << payload.object >>
      [] OTHER -> <<>>

\* schedule(resourceType, payload): the error it returns without an attempt.
scheduleError(payload) == IF payload.type = "error" THEN "event" ELSE "nil"

\* msg.action is s.schedule: the pods to attempt are fixed; each attempt is a
\* step of its own (SchedulePod, BindReply).
DispatchSchedule(i) ==
    /\ boot.dispatcher
    /\ Ranging
    /\ i \in DOMAIN holding
    /\ holding[i].action = "schedule"
    /\ Received(i)
    /\ todo' = scheduleItems(holding[i].payload)
    /\ pc' = IF todo' = <<>> THEN "idle" ELSE "schedule"
    /\ att' = [att EXCEPT !.fresh = FALSE, !.index = 0,
                          !.event = scheduleError(holding[i].payload)]
    /\ pat' = NoPatch
    /\ UNCHANGED <<produced, rx, mirror, txnOpen, bound, boot>>

\* schedulePod has returned err: schedule goes on with the next pod when err
\* is nil and returns otherwise.
Return(ret) ==
    /\ todo' = IF ret = "nil" THEN Tail(todo) ELSE <<>>
    /\ pc' = IF todo' = <<>> THEN "idle" ELSE "schedule"

\* schedulePod(pod) for the next pod, up to its return or to its POST.
SchedulePod ==
    /\ pc = "schedule"
    /\ \E res \in OracleResults : \E order \in Orders(DOMAIN res.m) :
          LET pod == Head(todo)
              o == schedulePod(mirror, pod, res, order)
          IN  /\ mirror' = o.m
              /\ att' = [pod |-> pod, pre |-> mirror,
                         result |-> IF getUID(pod) = None THEN NotQueried ELSE res,
                         selected |-> o.selected, log |-> o.log, posts |-> o.posts,
                         bind |-> IF o.stage = "returned" /\ o.selected # None /\ o.ret # "write"
                                  THEN "norequest" ELSE "none",
                         ret |-> o.ret, stage |-> o.stage, fresh |-> TRUE,
                         prev |-> LastSelection(att),
                         index |-> att.index + 1, event |-> att.event,
                         txns |-> TxnsOpened(o),
                         peak |-> Peak(txnOpen, TxnsOpened(o))]
              /\ CASE o.stage = "binding" ->
                        /\ pc' = "binding"
                        /\ txnOpen' = NewTransaction(txnOpen)
                        /\ todo' = todo
                   [] o.stage = "panic" ->
                        /\ pc' = "crashed"
                        /\ txnOpen' = EachClosed(txnOpen, TxnsOpened(o))
                        /\ todo' = todo
                   [] OTHER ->
                        /\ Return(o.ret)
                        /\ txnOpen' = EachClosed(txnOpen, TxnsOpened(o))
    /\ UNCHANGED <<produced, rx, holding, delivered, bound, pat, boot>>

\* client.Do returns: on success schedulePod returns nil, on failure it
\* removes the pod from the store and returns the error; the deferred Close
\* runs on both paths.
BindReply ==
    /\ pc = "binding"
    /\ \E outcome \in BindOutcomes :
          LET key == Path("pods", getUID(att.pod))
              c == IF BindSucceeded(outcome)
                   THEN [m |-> mirror, log |-> att.log, ret |-> "nil"]
                   ELSE Compensate(mirror, key, att.log)
          IN  /\ bound' = IF Accepted(outcome) THEN bound \cup {att.posts[1]} ELSE bound
              /\ mirror' = c.m
              /\ att' = [att EXCEPT !.log = c.log, !.ret = c.ret, !.bind = outcome,
                                    !.stage = "returned"]
              /\ Return(c.ret)
    /\ txnOpen' = Close(txnOpen)
    /\ UNCHANGED <<produced, rx, holding, delivered, pat, boot>>

Next ==
    \/ \E i \in Adapters : Produce(i)
    \/ \E i \in Adapters : Forward(i)
    \/ \E i \in Adapters : DispatchPatch(i)
    \/ \E i \in Adapters : DispatchSchedule(i)
    \/ SchedulePod
    \/ BindReply

Spec == Init /\ [][Next]_vars

\* ------------------------------------------------------------------- Start

\* Before Start is called: nothing is written, started or produced.
InitStart ==
    /\ produced = [i \in Adapters |-> <<>>]
    /\ rx = [i \in Adapters |-> <<>>]
    /\ holding = <<>>
    /\ delivered = [t \in Tags |-> <<>>]
    /\ pc = "idle"
    /\ todo = <<>>
    /\ mirror = <<>>
    /\ txnOpen = 0
    /\ bound = {}
    /\ att = NoAttempt
    /\ pat = NoPatch
    /\ boot = NotStarted

\* init writes only one root document.
initPodsOnly(failAt) ==
    [ok |-> failAt > Len(baseDocs),
     roots |-> IF failAt = 0 THEN {} ELSE {baseDocs[1]},
     opened |-> failAt # 0]

\* init(): NewTransaction, then one Add per root document; the first call
\* that fails makes init return its error. failAt is the failing call: 0 is
\* NewTransaction, k is the write of the k-th root, Len(baseDocs) + 1 is none.
init(failAt) ==
    LET written == IF failAt = 0 THEN 0
                   ELSE IF failAt > Len(baseDocs) THEN Len(baseDocs)
                   ELSE failAt - 1
    IN  [ok |-> failAt > Len(baseDocs),
         roots |-> { baseDocs[k] : k \in 1..written },
         opened |-> failAt # 0]

\* Start calls init and returns its error, or goes on to run.
StartInit ==
    /\ boot.pc = "init"
    /\ \E failAt \in 0..(Len(baseDocs) + 1) :
          LET r == init(failAt)
          IN  /\ boot' = [boot EXCEPT !.roots = r.roots,
                                      !.pc = IF r.ok THEN "run" ELSE "done",
                                      !.ret = IF r.ok THEN "pending" ELSE "error",
                                      !.failed = IF r.ok THEN None ELSE "init"]
              /\ txnOpen' = IF r.opened THEN Close(NewTransaction(txnOpen)) ELSE txnOpen
    /\ UNCHANGED <<produced, rx, holding, delivered, pc, todo, mirror, bound, att, pat>>

\* One round of run's loop: newReflector for the next row of the table
\* succeeds, and the reflector and its forwarder are started; or it fails,
\* and run returns, upon which Start returns nil.
StartReflector ==
    /\ boot.pc = "run"
    /\ boot.started < Len(SpecTable)
    /\ \E ok \in BOOLEAN :
          boot' = IF ok THEN [boot EXCEPT !.started = @ + 1]
                  ELSE [boot EXCEPT !.pc = "done", !.ret = "nil", !.failed = "reflector"]
    /\ UNCHANGED <<produced, rx, holding, delivered, pc, todo, mirror, txnOpen, bound, att, pat>>

\* After the loop run starts the dispatching goroutine and returns, and Start
\* returns nil.
StartDispatcher ==
    /\ boot.pc = "run"
    /\ boot.started = Len(SpecTable)
    /\ boot' = [boot EXCEPT !.dispatcher = TRUE, !.pc = "done", !.ret = "nil"]
    /\ UNCHANGED <<produced, rx, holding, delivered, pc, todo, mirror, txnOpen, bound, att, pat>>

NextStart ==
    \/ StartInit
    \/ StartReflector
    \/ StartDispatcher
    \/ \E i \in Adapters : Produce(i)
    \/ \E i \in Adapters : Forward(i)
    \/ \E i \in Adapters : DispatchPatch(i)
    \/ \E i \in Adapters : DispatchSchedule(i)
    \/ SchedulePod
    \/ BindReply

\* The scheduler from the call of Start on.
SpecStart == InitStart /\ [][NextStart]_vars

TypeOK ==
    /\ pc \in {"idle", "schedule", "binding", "crashed"}
    /\ txnOpen \in 0..1
    /\ boot.pc \in {"init", "run", "done"}
    /\ boot.started \in 0..Len(SpecTable)

\* ================================================================= claims

\* The store key of the pod of the attempt on record.
AttKey == Path("pods", getUID(att.pod))

\* The attempt on record is over and nothing has been dispatched since.
AttReturned == att.fresh /\ att.stage = "returned"

\* The attempt on record wrote its pod to the store.
AttWrote == \E k \in DOMAIN att.log : att.log[k].op = "add" /\ att.log[k].ok

\* The payload of the schedule message being handled, or handled last.
ScheduleTag == <<"schedule", "pods">>
LastScheduled == delivered[ScheduleTag][Len(delivered[ScheduleTag])]

\* C1: when schedulePod has selected a node and written the pod, and the bind
\* fails (no request could be built, a status above 201, or a transport
\* failure), then at its return the store holds no entry pods[uid] and the
\* error returned is the bind's.
C1_BindFailureRetracts ==
    (AttReturned /\ att.bind \notin {"none", "created"})
        => (AttKey \notin DOMAIN mirror /\ att.ret = "bind")

\* C1 witness: an attempt wrote its pod, its POST was answered 500, and it
\* has returned.
C1_Witness ==
    /\ AttReturned
    /\ AttWrote
    /\ att.bind = "rejected"
    /\ Len(att.posts) = 1

\* C2: whenever the dispatcher is between actions, for every pod the schedule
\* action handles and every node n, the store holds pods[uid] written by
\* schedule with spec.nodeName = n exactly if the control plane has accepted
\* the binding of that pod to n.
C2_CommittedOrRetracted ==
    pc = "idle" =>
        \A p \in AdapterDocs(1) : \A n \in NodeNames :
            getUID(p) # None =>
                LET key == Path("pods", getUID(p))
                    mirrored == /\ key \in DOMAIN mirror
                                /\ mirror[key].by = "schedule"
                                /\ mirror[key].doc = [p EXCEPT !.nodeName = n]
                    accepted == \E b \in bound :
                                    /\ b.name = p.name
                                    /\ b.namespace = p.namespace
                                    /\ b.target = n
                IN  mirrored <=> accepted

\* C3: when the bind of an attempt succeeds, then at its return the store
\* holds the pod at pods[uid] with spec.nodeName the selected node, the attempt
\* has issued exactly one POST, to the bindings path of the pod's namespace,
\* with the pod's name and namespace as metadata and the selected node as
\* target, the selected node is a key of the query result, and no error is
\* returned.
C3_PlacedAndBound ==
    (AttReturned /\ att.bind = "created") =>
        /\ att.ret = "nil"
        /\ att.selected \in DOMAIN att.result.m
        /\ AttKey \in DOMAIN mirror
        /\ mirror[AttKey].doc = [att.pod EXCEPT !.nodeName = att.selected]
        /\ att.posts = << [namespacePath |-> att.pod.namespace,
                           name |-> att.pod.name,
                           namespace |-> att.pod.namespace,
                           target |-> att.selected] >>

\* C3 witness: pod PodA arrived as an added event, the query gave a map with
\* a key, the POST was answered 201 and the attempt has returned.
C3_Witness ==
    /\ AttReturned
    /\ att.bind = "created"
    /\ att.pod = PodA
    /\ LastScheduled = Sync("added", PodA)
    /\ att.result.kind = "map"

\* C4: when the query result is Undefined or the empty map, schedulePod
\* returns nil at once, writes nothing (the store is as before the attempt)
\* and issues no POST.
C4_NoDecisionNoEffect ==
    (att.fresh /\ (att.result = Undefined \/ att.result = MapResult(<<>>))) =>
        /\ att.stage = "returned"
        /\ att.ret = "nil"
        /\ att.log = <<>>
        /\ att.posts = <<>>
        /\ mirror = att.pre

\* C4 witness: an attempt on a store that holds entries got Undefined.
C4_Witness ==
    /\ att.fresh
    /\ att.result = Undefined
    /\ DOMAIN att.pre # {}

\* C5: every query result that is neither Undefined nor a map of numbers (a
\* document of another shape, or a map with a value that is no number) makes
\* schedulePod return nil with no write and no POST, and the dispatcher runs on.
C5_MalformedIsNoDecision ==
    (att.fresh /\ (att.result = OtherShape
                     \/ (att.result.kind = "map"
                           /\ \E k \in DOMAIN att.result.m : ~att.result.m[k].num))) =>
        /\ att.stage = "returned"
        /\ att.ret = "nil"
        /\ att.log = <<>>
        /\ att.posts = <<>>
        /\ mirror = att.pre
        /\ pc # "crashed"

\* C6: whenever an attempt has selected a node, the node is a key of the
\* query result and no key has a greater weight; it is the spec.nodeName of
\* the pod written to the store and the target of the POST.
C6_SelectsMaximumWeight ==
    att.selected # None =>
        /\ att.selected \in DOMAIN att.result.m
        /\ \A k \in DOMAIN att.result.m :
              att.result.m[k].w <= att.result.m[att.selected].w
        /\ att.log[1].op = "add" /\ att.log[1].doc.nodeName = att.selected
        /\ \A k \in DOMAIN att.posts : att.posts[k].target = att.selected

\* C6 witness: a node was selected from a map of two nodes of different
\* weight, and the POST is in flight.
C6_Witness ==
    /\ att.selected # None
    /\ pc = "binding"
    /\ DOMAIN att.result.m = NodeNames
    /\ \E a, b \in NodeNames : att.result.m[a].w < att.result.m[b].w

\* The attempt on record and an earlier attempt both selected a node, for the
\* same pod and from the same map.
SameInputTwice ==
    /\ att.selected # None
    /\ att.prev.selected # None
    /\ att.prev.pod = att.pod
    /\ att.prev.result = att.result

\* The nodes of maximum weight of the map of the attempt on record.
Heaviest ==
    { k \in DOMAIN att.result.m :
        \A j \in DOMAIN att.result.m : att.result.m[j].w <= att.result.m[k].w }

Named(resourceType, items) ==
    { Path(resourceType, getUID(items[k])) : k \in { j \in DOMAIN items : getUID(items[j]) # None } }

\* C8: after patch has handled a resync, every item of the snapshot that has
\* a uid has exactly one successful Add at (resourceType, uid) in the write
\* log, whatever its position and whatever became of the other items, and the
\* entries the snapshot does not name are as they were.
C8_ResyncUpsertsEveryItem ==
    (pat.done /\ pat.msg.payload.type = "resync") =>
        LET rt == pat.msg.resourceType
            items == pat.msg.payload.items
        IN  /\ \A k \in DOMAIN items :
                  getUID(items[k]) # None =>
                      Cardinality({ j \in DOMAIN pat.log :
                          pat.log[j] = Logged("add", Path(rt, getUID(items[k])), items[k], TRUE) }) = 1
            /\ \A key \in (DOMAIN pat.pre \cup DOMAIN mirror) \ Named(rt, items) :
                  /\ key \in DOMAIN pat.pre
                  /\ key \in DOMAIN mirror
                  /\ mirror[key] = pat.pre[key]

\* C9: after patch has handled an incremental event with document d of uid u:
\* added and modified leave d at (resourceType, u) whether or not an entry was
\* there before, deleted leaves no entry there, and every other entry is as
\* it was.
C9_IncrementalUpsertOrRemove ==
    (pat.done /\ pat.msg.payload.type = "sync" /\ getUID(pat.msg.payload.object) # None) =>
        LET d == pat.msg.payload.object
            key == Path(pat.msg.resourceType, getUID(d))
        IN  /\ pat.msg.payload.op \in {"added", "modified"} =>
                  (key \in DOMAIN mirror /\ mirror[key].doc = d)
            /\ pat.msg.payload.op = "deleted" => key \notin DOMAIN mirror
            /\ \A k \in (DOMAIN pat.pre \cup DOMAIN mirror) \ {key} :
                  /\ k \in DOMAIN pat.pre
                  /\ k \in DOMAIN mirror
                  /\ mirror[k] = pat.pre[k]

\* The payload forwarder i holds, blocked on its send.
InFlight(i) == IF i \in DOMAIN holding THEN << holding[i].payload >> ELSE <<>>

\* C10: for every adapter, the payloads dispatched under its (action,
\* resourceType) tag, then the payload its forwarder holds, then what waits on
\* its Rx channel, are together the sequence it has produced: the dispatched
\* payloads are a prefix of it, nothing dropped, duplicated or reordered.
C10_LosslessFifo ==
    \A i \in Adapters :
        delivered[<<SpecTable[i].action, SpecTable[i].resourceType>>]
            \o InFlight(i) \o rx[i] = produced[i]

\* C10 witness: one adapter had two different payloads dispatched.
C10_Witness ==
    \E t \in Tags :
        /\ Len(delivered[t]) = 2
        /\ delivered[t][1] # delivered[t][2]

\* C11: dispatch is strictly sequential. In every reachable state at most one
\* transaction is open, also inside an action that runs in one step; a
\* transaction is open only while the one schedule action awaits its bind; a
\* patch action has returned before anything else runs; and the dispatcher
\* receives a message only when no action is executing and no transaction is
\* open.
C11_OneActionOneTransaction ==
    /\ [](/\ txnOpen <= 1
          /\ pat.peak <= 1
          /\ att.peak <= 1
          /\ (txnOpen = 1 => pc = "binding")
          /\ (pat.done => pc = "idle"))
    /\ [][delivered' # delivered => (pc = "idle" /\ txnOpen = 0)]_vars

\* C11 witness: a schedule action awaits its bind with its transaction open
\* while a forwarder is blocked on mux with the next message.
C11_Witness ==
    /\ pc = "binding"
    /\ txnOpen = 1
    /\ DOMAIN holding # {}

\* The action fails on payload p whatever the store holds: p is an
\* error-tagged event, or a document it must handle lacks metadata.uid.
Fails(t, p) ==
    \/ p.type = "error"
    \/ p.type = "resync" /\ \E k \in DOMAIN p.items : getUID(p.items[k]) = None
    \/ p.type = "sync" /\ getUID(p.object) = None
                       /\ (t = ScheduleTag => p.op = "added")

\* An action has failed on a message and has returned: every dispatched
\* message but the last schedule message has been handled to its end.
FailedEarlier ==
    \E t \in Tags : \E k \in DOMAIN delivered[t] :
        /\ Fails(t, delivered[t][k])
        /\ (t = ScheduleTag => k < Len(delivered[ScheduleTag]))

\* C12: after an action has failed on a message, the dispatcher loop has not
\* terminated (so that the messages produced afterwards can be dispatched).
C12_DispatcherSurvivesFailure == FailedEarlier => pc # "crashed"

\* C13: when the construction of one of the five adapters has failed during
\* startup, Start has reported a failure to its caller, and the scheduler is
\* not left with adapters started and no dispatcher.
C13_AdapterFailureAbortsStart ==
    boot.failed = "reflector" =>
        /\ boot.ret = "error"
        /\ ~(boot.started > 0 /\ ~boot.dispatcher)

\* The four root documents of the store.
AllRoots == {"pods", "nodes", "replicationcontrollers", "services"}

\* Some event has been dispatched.
Dispatched == \E t \in Tags : delivered[t] # <<>>

\* C14: the four root documents all exist before an adapter, a forwarder or
\* the dispatcher is started, hence before the first event is dispatched, and
\* they are empty until then; and when init has failed, Start has returned the
\* error and no adapter, forwarder or dispatcher is started: nothing is
\* produced, forwarded or dispatched.
C14_RootsBeforeDispatch ==
    /\ (boot.started > 0 \/ boot.dispatcher \/ Dispatched) => boot.roots = AllRoots
    /\ ~Dispatched => mirror = <<>>
    /\ boot.failed = "init" =>
          /\ boot.pc = "done"
          /\ boot.ret = "error"
          /\ boot.started = 0
          /\ ~boot.dispatcher
          /\ \A i \in Adapters : produced[i] = <<>>
          /\ holding = <<>>
          /\ ~Dispatched

\* C14 witness: Start has returned nil and the first event has been
\* dispatched, a document written under a root.
C14_Witness ==
    /\ boot.ret = "nil"
    /\ Dispatched
    /\ mirror # <<>>

\* The latest message dispatched is a schedule message.
ScheduleIsLatest == delivered[ScheduleTag] # <<>> /\ ~pat.done

\* The pods a schedule message is to have attempted: every item of a resync,
\* in snapshot order, and the document of an added event.
ClaimedItems(p) ==
    CASE p.type = "resync" -> p.items
      [] p.type = "sync" /\ p.op = "added" -> << p.object >>
      [] OTHER -> <<>>

\* The attempts the latest schedule action has made so far.
Attempts == IF att.fresh THEN att.index ELSE 0

\* C15: the k-th attempt of a schedule action is for the k-th item of the
\* resync (for the document of the added event), and when the action has
\* returned it has made one attempt for every item of the resync; for a
\* modified or deleted event it has made no attempt (no query, no write, no
\* POST).
C15_AttemptsEveryItem ==
    ScheduleIsLatest =>
        LET items == ClaimedItems(LastScheduled)
        IN  /\ Attempts <= Len(items)
            /\ att.fresh => att.pod = items[att.index]
            /\ pc = "idle" => Attempts = Len(items)

\* C16: while the bind of an attempt is in flight the pod has been written
\* and the transaction of that write has been closed: no transaction is open.
C16_CommitBeforeBind == pc = "binding" => (AttWrote /\ txnOpen = 0)

\* C17: no transaction leaks. Every transaction init, patchOp or schedulePod
\* has opened is closed once: the number of open transactions never falls
\* below zero, and it is zero whenever the dispatcher is between actions,
\* between the pods of a schedule action, or has ended in a panic, and after
\* init has returned, with or without an error; while a bind is in flight it
\* is the one transaction of that attempt.
C17_NoTransactionLeak ==
    /\ txnOpen >= 0
    /\ pc \in {"idle", "schedule", "crashed"} => txnOpen = 0
    /\ pc = "binding" => (txnOpen = 1 /\ att.txns = 1)

\* C17 witness: after a start in which init has opened its transaction, an
\* attempt whose bind failed has removed its pod again and has returned, and
\* the dispatcher is idle.
C17_Witness ==
    /\ boot.roots = AllRoots
    /\ pc = "idle"
    /\ AttReturned
    /\ att.txns = 1
    /\ att.bind = "unreachable"
    /\ att.ret = "bind"
    /\ txnOpen = 0

\* The position of the first item of a snapshot that has no metadata.uid.
FirstNoUid(items) ==
    CHOOSE k \in DOMAIN items :
        /\ items[k].uid = None
        /\ \A j \in 1..(k - 1) : items[j].uid # None

\* C18: a document without metadata.uid makes its action fail with the
\* malformed-object error before any store access for it: schedulePod opens
\* no transaction, writes nothing, issues no POST and leaves the store as it
\* was; patchOp opens no transaction and writes nothing, so that a patch of one
\* such document leaves the store as it was and the patch of a resync has
\* opened a transaction and written only for the items before the first such
\* document. An error-tagged event is returned as the action's error, again
\* with no transaction, no write, no attempt and the store as it was.
C18_MalformedBeforeStore ==
    /\ (att.fresh /\ att.pod.uid = None) =>
          /\ att.stage = "returned"
          /\ att.ret = "malformed"
          /\ att.txns = 0
          /\ att.log = <<>>
          /\ att.posts = <<>>
          /\ mirror = att.pre
    /\ (pat.done /\ pat.msg.payload.type = "sync" /\ pat.msg.payload.object.uid = None) =>
          /\ pat.ret = "malformed"
          /\ pat.txns = 0
          /\ pat.log = <<>>
          /\ mirror = pat.pre
    /\ (pat.done /\ pat.msg.payload.type = "resync"
          /\ \E k \in DOMAIN pat.msg.payload.items : pat.msg.payload.items[k].uid = None) =>
          /\ pat.ret = "malformed"
          /\ pat.txns = FirstNoUid(pat.msg.payload.items) - 1
          /\ Len(pat.log) = FirstNoUid(pat.msg.payload.items) - 1
          /\ \A k \in DOMAIN pat.log : pat.log[k].doc.uid # None
    /\ (pat.done /\ pat.msg.payload.type = "error") =>
          /\ pat.ret = "event"
          /\ pat.txns = 0
          /\ pat.log = <<>>
          /\ mirror = pat.pre
    /\ (ScheduleIsLatest /\ LastScheduled.type = "error") =>
          /\ att.event = "event"
          /\ ~att.fresh
          /\ pc = "idle"
          /\ txnOpen = 0

\* C18 witness: on a store that holds entries, an attempt for a pod without
\* metadata.uid has returned.
C18_Witness ==
    /\ att.fresh
    /\ att.pod.uid = None
    /\ att.stage = "returned"
    /\ DOMAIN att.pre # {}

\* C19: an attempt that has ended in a bind failure leaves the store exactly
\* as it was before the attempt started, whatever it held then, an entry for
\* the same uid included.
C19_BindFailureRestoresMirror ==
    (AttReturned /\ att.bind \notin {"none", "created"}) => mirror = att.pre

====
